---- MODULE Spec2Model ----
(***************************************************************************)
(* A state-machine model of the image converter in src/idea2.py: the       *)
(* settings document and its JSON file (load_settings / save_settings),    *)
(* the save-option builders, the prerequisite check, the batch file        *)
(* enumeration and the batch / single conversion handlers of MainWindow,   *)
(* with the GUI callbacks that Qt dispatches from the main event loop and  *)
(* from QApplication.processEvents() inside a running conversion.          *)
(*                                                                         *)
(* Python strings are modelled as sequences of one-character strings, so   *)
(* that lower(), endswith(), sorted(), basename(), splitext() and join()   *)
(* are computed as the library computes them.  Python's None and a JSON    *)
(* null are distinct tagged values.                                        *)
(***************************************************************************)
EXTENDS Integers, Sequences, FiniteSets, TLC

VARIABLES
    pc,                   \* "boot" | "crashed" | "running" | "closed"
    Image,                \* "PIL" when the import at 14-16 succeeded, "None" otherwise
    deferred_annotations, \* TRUE when the interpreter evaluates annotations lazily
    webp_settings,        \* MainWindow.webp_settings (a dict)
    avif_settings,        \* MainWindow.avif_settings (a dict)
    source_filepath,      \* MainWindow.source_filepath
    output_folder_path,   \* MainWindow.output_folder_path
    batch_folder_path,    \* MainWindow.batch_folder_path
    settingsFile,         \* content of image_converter_settings.json
    dirs,                 \* the directories os.path.isdir answers True for
    writable,             \* TRUE when the settings file can be opened for writing
    stack,                \* conversion handlers suspended in processEvents(), innermost last
    info_label,           \* what the last step put on info_label (NoLabel when it set none)
    save_options,         \* the dict the last step got from a save-option builder (or EmptyDict)
    last_op,              \* the conversion handler that ran last; "other" after any other callback
    step_io,              \* image / folder operations performed by the last step
    listed                \* what os.listdir returned in the last step ({} when not called)

docVars  == <<webp_settings, avif_settings, output_folder_path, batch_folder_path>>
envVars  == <<Image, deferred_annotations, dirs, writable>>
vars == <<pc, Image, deferred_annotations, webp_settings, avif_settings,
          source_filepath, output_folder_path, batch_folder_path, settingsFile,
          dirs, writable, stack, info_label, save_options, last_op, step_io, listed>>

----------------------------------------------------------------------------
(* Bounds of the model *)

\* most directory entries one os.listdir call returns
MaxEntries == 3
\* most conversion handlers nested through processEvents()
MaxDepth == 2

----------------------------------------------------------------------------
(* Python strings *)

\* ord(c) for the characters the model uses
Ord(c) ==
    CASE c = "." -> 46  [] c = "/" -> 47
      [] c = "B" -> 66  [] c = "G" -> 71  [] c = "J" -> 74  [] c = "P" -> 80
      [] c = "a" -> 97  [] c = "b" -> 98  [] c = "d" -> 100 [] c = "e" -> 101
      [] c = "g" -> 103 [] c = "i" -> 105 [] c = "f" -> 102
      [] c = "j" -> 106 [] c = "m" -> 109 [] c = "n" -> 110 [] c = "o" -> 111
      [] c = "p" -> 112 [] c = "q" -> 113 [] c = "t" -> 116 [] c = "x" -> 120

\* str.lower() on one character
LowerChar(c) ==
    CASE c = "B" -> "b" [] c = "G" -> "g" [] c = "J" -> "j" [] c = "P" -> "p"
      [] OTHER -> c

\* str.lower()
Lower(s) == [i \in 1..Len(s) |-> LowerChar(s[i])]

\* s < t for Python strings: lexicographic by code point
RECURSIVE StrLess(_, _)
StrLess(s, t) ==
    IF t = <<>> THEN FALSE
    ELSE IF s = <<>> THEN TRUE
    ELSE IF Ord(Head(s)) # Ord(Head(t)) THEN Ord(Head(s)) < Ord(Head(t))
    ELSE StrLess(Tail(s), Tail(t))

\* sorted(names) for a collection of distinct strings
RECURSIVE Sorted(_)
Sorted(names) ==
    IF names = {} THEN <<>>
    ELSE LET least == CHOOSE n \in names : \A m \in names \ {n} : StrLess(n, m)
         IN  <<least>> \o Sorted(names \ {least})

\* s.endswith(suffixes) for a tuple of suffixes
EndsWith(s, suffixes) ==
    \E suf \in suffixes :
        /\ Len(s) >= Len(suf)
        /\ SubSeq(s, Len(s) - Len(suf) + 1, Len(s)) = suf

\* s.rfind(c), 1-based; 0 when c does not occur
RFind(s, c) ==
    IF \E i \in 1..Len(s) : s[i] = c
    THEN CHOOSE i \in 1..Len(s) : s[i] = c /\ \A j \in (i+1)..Len(s) : s[j] # c
    ELSE 0

\* os.path.basename
basename(p) == SubSeq(p, RFind(p, "/") + 1, Len(p))

\* os.path.dirname
dirname(p) ==
    LET head == SubSeq(p, 1, RFind(p, "/"))
        RECURSIVE rstrip(_)
        rstrip(h) == IF h # <<>> /\ h[Len(h)] = "/" THEN rstrip(SubSeq(h, 1, Len(h) - 1)) ELSE h
    IN  IF head # <<>> /\ \E i \in 1..Len(head) : head[i] # "/" THEN rstrip(head) ELSE head

\* os.path.splitext: <<root, ext>>; leading dots of the name are no extension
splitext(p) ==
    LET sepIndex == RFind(p, "/")
        dotIndex == RFind(p, ".")
    IN  IF dotIndex > sepIndex
           /\ \E k \in (sepIndex + 1)..(dotIndex - 1) : p[k] # "."
        THEN <<SubSeq(p, 1, dotIndex - 1), SubSeq(p, dotIndex, Len(p))>>
        ELSE <<p, <<>> >>

\* os.path.join(a, b)
join(a, b) ==
    IF b # <<>> /\ b[1] = "/" THEN b
    ELSE IF a = <<>> \/ a[Len(a)] = "/" THEN a \o b
    ELSE a \o <<"/">> \o b

\* SUPPORTED_IMAGE_EXTENSIONS
SUPPORTED_IMAGE_EXTENSIONS ==
    { <<".", "p", "n", "g">>, <<".", "j", "p", "g">>, <<".", "j", "p", "e", "g">>,
      <<".", "b", "m", "p">>, <<".", "g", "i", "f">> }

----------------------------------------------------------------------------
(* Python values: None and str; truthiness *)

PyNone == [isNone |-> TRUE, s |-> <<>>]
PyStr(s) == [isNone |-> FALSE, s |-> s]

\* bool(x) for x None or a str
Truthy(x) == ~x.isNone /\ x.s # <<>>

----------------------------------------------------------------------------
(* The settings document *)

SettingKeys == {"lossless", "quality", "resize_mode", "width", "height"}

DefaultWebpQuality == 90
DefaultAvifQuality == 70
DefaultWidth == 1280
DefaultHeight == 720

\* default_settings of MainWindow.__init__
default_settings ==
    [k \in SettingKeys |->
        CASE k = "lossless" -> FALSE
          [] k = "quality" -> DefaultWebpQuality
          [] k = "resize_mode" -> "original"
          [] k = "width" -> DefaultWidth
          [] k = "height" -> DefaultHeight]

\* the document MainWindow.__init__ builds before load_settings
DefaultDoc ==
    [webp_settings |-> default_settings,
     avif_settings |-> [default_settings EXCEPT !["quality"] = DefaultAvifQuality],
     output_folder_path |-> PyNone,
     batch_folder_path |-> PyNone]

\* the four persisted fields of the running window
Doc ==
    [webp_settings |-> webp_settings,
     avif_settings |-> avif_settings,
     output_folder_path |-> output_folder_path,
     batch_folder_path |-> batch_folder_path]

EmptyDict == [k \in {} |-> 0]

----------------------------------------------------------------------------
(* JSON *)

JNull == [t |-> "null", s |-> <<>>]
JString(s) == [t |-> "string", s |-> s]
JObject(d) == [t |-> "object", v |-> d]
JNumber == [t |-> "number", v |-> EmptyDict]
JEmptyArray == [t |-> "array", v |-> EmptyDict]

\* json.dump of None or a str
ToJson(x) == IF x.isNone THEN JNull ELSE JString(x.s)
\* json.load of null or a string
FromJson(j) == IF j.t = "null" THEN PyNone ELSE PyStr(j.s)

TopKeys == {"webp_settings", "avif_settings", "output_folder_path", "batch_folder_path"}

\* a file holding a JSON object with the top-level keys `keys`
JsonFile(keys, w, a, o, b) ==
    [kind |-> "object", keys |-> keys,
     webp_settings |-> w, avif_settings |-> a,
     output_folder_path |-> o, batch_folder_path |-> b]

\* no file, a file that is not JSON, a file whose top level is a JSON array
AbsentFile    == [JsonFile({}, JNumber, JNumber, JNull, JNull) EXCEPT !.kind = "absent"]
MalformedFile == [JsonFile({}, JNumber, JNumber, JNull, JNull) EXCEPT !.kind = "malformed"]
ArrayFile     == [JsonFile({}, JNumber, JNumber, JNull, JNull) EXCEPT !.kind = "array"]

\* settings_data.get(key, default)
Get(file, key, default) == IF key \in file.keys THEN file[key] ELSE default

\* mutant: a loaded object is merged over default_settings, not over the
\* dict it updates
DictUpdateOverDefaults(d, m) ==
    [k \in DOMAIN d \cup DOMAIN m.v |->
        IF k \in DOMAIN m.v THEN m.v[k]
        ELSE IF m.v # EmptyDict /\ k \in DOMAIN default_settings THEN default_settings[k]
        ELSE d[k]]

\* dict.update(m) raises for a JSON number or null; an empty array updates nothing
UpdateRaises(m) == m.t \notin {"object", "array"}
DictUpdate(d, m) ==
    [k \in DOMAIN d \cup DOMAIN m.v |-> IF k \in DOMAIN m.v THEN m.v[k] ELSE d[k]]

\* mutant: json.dump without the output folder
DumpNoOutput(doc) ==
    JsonFile(TopKeys, JObject(doc.webp_settings), JObject(doc.avif_settings),
             JNull, ToJson(doc.batch_folder_path))

\* json.dump(settings_data) of save_settings
Dump(doc) ==
    JsonFile(TopKeys, JObject(doc.webp_settings), JObject(doc.avif_settings),
             ToJson(doc.output_folder_path), ToJson(doc.batch_folder_path))

\* load_settings: the document after loading `file` into `self`
load_settings(self, file, isdir) ==
    IF file.kind # "object" THEN self
    ELSE
    LET w == Get(file, "webp_settings", JObject(EmptyDict))
        a == Get(file, "avif_settings", JObject(EmptyDict))
        batch_path == FromJson(Get(file, "batch_folder_path", JNull))
        self1 == [self  EXCEPT !.webp_settings = DictUpdate(self.webp_settings, w)]
        self2 == [self1 EXCEPT !.avif_settings = DictUpdate(self.avif_settings, a)]
        self3 == [self2 EXCEPT !.output_folder_path =
                                   FromJson(Get(file, "output_folder_path", JNull))]
    IN  IF UpdateRaises(w) THEN self
        ELSE IF UpdateRaises(a) THEN self1
        ELSE [self3 EXCEPT !.batch_folder_path =
                 IF Truthy(batch_path) /\ batch_path.s \in isdir THEN batch_path ELSE PyNone]

----------------------------------------------------------------------------
(* Inputs the environment supplies *)

\* folder paths the output-folder dialog and the batch-folder dialog can return
OutputFolders == { <<"/", "o">>, <<"/", "p">> }
BatchFolders == { <<"/", "p">> }

\* file paths a drop or the file dialog can supply
SourceFiles == { <<"/", "p", "/", "a", ".", "p", "n", "g">> }

\* directory entries os.listdir can return: name and whether os.path.isfile holds
Entry(name, isfile) == [name |-> name, isfile |-> isfile]
CandidateEntries ==
    { Entry(<<"a", ".", "p", "n", "g">>, TRUE),
      Entry(<<"B", ".", "J", "P", "G">>, TRUE),
      Entry(<<"a", ".", "j", "p", "e", "g">>, TRUE),
      Entry(<<"n", ".", "t", "x", "t">>, TRUE),
      Entry(<<"d", ".", "b", "m", "p">>, FALSE) }

Listings == { l \in SUBSET CandidateEntries : Cardinality(l) <= MaxEntries }

\* what ConversionSettingsDialog.get_settings can return
DialogSettings ==
    { [k \in SettingKeys |->
          CASE k = "lossless" -> TRUE
            [] k = "quality" -> 42
            [] k = "resize_mode" -> "specify"
            [] k = "width" -> 100
            [] k = "height" -> 50] }

----------------------------------------------------------------------------
(* Labels *)

Label(kind) == [kind |-> kind, fmt |-> "", a |-> 0, b |-> 0]
NoLabel == Label("")
LabelF(kind, fmt, a, b) == [kind |-> kind, fmt |-> fmt, a |-> a, b |-> b]

----------------------------------------------------------------------------
(* save_settings *)

\* a handler path that does not call save_settings
NoSave == settingsFile' = settingsFile

\* mutant: save_settings returns without writing
SaveSkipped(doc) == NoSave

\* save_settings writing `doc`; when open() raises, the error is printed and
\* the file stays as it was
save_settings(doc) ==
    settingsFile' = IF writable THEN Dump(doc) ELSE settingsFile

----------------------------------------------------------------------------
(* Start of the process: module import, class definition, MainWindow.__init__ *)

\* The annotation Image.Image of _process_image is evaluated when the class
\* body runs, unless the interpreter defers annotations; with Image = None it
\* raises AttributeError and the process ends before any window exists.
ClassBodyRaises == Image = "None" /\ ~deferred_annotations

Startup ==
    /\ pc = "boot"
    /\ IF ClassBodyRaises
       THEN /\ pc' = "crashed"
            /\ last_op' = "class MainWindow"
            /\ info_label' = NoLabel
            /\ UNCHANGED <<docVars, source_filepath>>
       ELSE LET d == load_settings(DefaultDoc, settingsFile, dirs)
            IN  /\ pc' = "running"
                /\ webp_settings' = d.webp_settings
                /\ avif_settings' = d.avif_settings
                /\ output_folder_path' = d.output_folder_path
                /\ batch_folder_path' = d.batch_folder_path
                /\ source_filepath' = PyNone
                /\ info_label' = Label("INFO")
                /\ last_op' = "load_settings"
    /\ NoSave
    /\ step_io' = {}
    /\ listed' = {}
    /\ save_options' = EmptyDict
    /\ UNCHANGED <<envVars, stack>>

----------------------------------------------------------------------------
(* GUI callbacks.  Qt dispatches them from the main event loop and from the *)
(* processEvents() call of a conversion handler, while the window is open.  *)

Dispatching == pc = "running"

\* handle_file_drop / open_file_dialog -> set_source_file(filepath)
set_source_file(filepath) ==
    /\ Dispatching
    /\ source_filepath' = PyStr(filepath)
    /\ IF ~Truthy(output_folder_path)
       THEN /\ output_folder_path' = PyStr(dirname(filepath))
            /\ save_settings([Doc EXCEPT !.output_folder_path = PyStr(dirname(filepath))])
       ELSE /\ UNCHANGED output_folder_path
            /\ NoSave
    /\ info_label' = Label("INFO")
    /\ last_op' = "other"
    /\ step_io' = {}
    /\ listed' = {}
    /\ UNCHANGED <<pc, envVars, webp_settings, avif_settings, batch_folder_path,
                   stack>>
    /\ save_options' = EmptyDict

\* select_batch_folder; folderpath is what the dialog returned ("" on cancel)
select_batch_folder(folderpath) ==
    /\ Dispatching
    /\ IF folderpath = <<>>
       THEN /\ UNCHANGED <<batch_folder_path, output_folder_path>>
            /\ info_label' = NoLabel
            /\ NoSave
       ELSE LET out == IF ~Truthy(output_folder_path)
                       THEN PyStr(folderpath) ELSE output_folder_path
            IN  /\ batch_folder_path' = PyStr(folderpath)
                /\ output_folder_path' = out
                /\ info_label' = Label("INFO")
                /\ save_settings([Doc EXCEPT !.batch_folder_path = PyStr(folderpath),
                                             !.output_folder_path = out])
    /\ last_op' = "other"
    /\ step_io' = {}
    /\ listed' = {}
    /\ UNCHANGED <<pc, envVars, webp_settings, avif_settings, source_filepath,
                   stack>>
    /\ save_options' = EmptyDict

\* clear_batch_selection; its button is enabled only while a batch folder is set
clear_batch_selection ==
    /\ Dispatching
    /\ Truthy(batch_folder_path)
    /\ batch_folder_path' = PyNone
    /\ info_label' = Label("INFO")
    /\ save_settings([Doc EXCEPT !.batch_folder_path = PyNone])
    /\ last_op' = "other"
    /\ step_io' = {}
    /\ listed' = {}
    /\ UNCHANGED <<pc, envVars, webp_settings, avif_settings, source_filepath,
                   output_folder_path, stack>>
    /\ save_options' = EmptyDict

\* select_output_folder; folderpath is what the dialog returned ("" on cancel)
select_output_folder(folderpath) ==
    /\ Dispatching
    /\ IF folderpath # <<>>
       THEN /\ output_folder_path' = PyStr(folderpath)
            /\ save_settings([Doc EXCEPT !.output_folder_path = PyStr(folderpath)])
       ELSE /\ UNCHANGED output_folder_path
            /\ NoSave
    /\ last_op' = "other"
    /\ step_io' = {}
    /\ listed' = {}
    /\ info_label' = NoLabel
    /\ save_options' = EmptyDict
    /\ UNCHANGED <<pc, envVars, webp_settings, avif_settings, source_filepath,
                   batch_folder_path, stack>>

\* open_webp_settings; accepted is dialog.exec(), chosen is dialog.get_settings()
open_webp_settings(accepted, chosen) ==
    /\ Dispatching
    /\ IF accepted
       THEN /\ webp_settings' = chosen
            /\ info_label' = LabelF("SETTINGS_UPDATED", "WebP", 0, 0)
            /\ save_settings([Doc EXCEPT !.webp_settings = chosen])
       ELSE /\ UNCHANGED webp_settings
            /\ info_label' = NoLabel
            /\ NoSave
    /\ last_op' = "other"
    /\ step_io' = {}
    /\ listed' = {}
    /\ UNCHANGED <<pc, envVars, avif_settings, source_filepath, output_folder_path,
                   batch_folder_path, stack>>
    /\ save_options' = EmptyDict

\* open_avif_settings
open_avif_settings(accepted, chosen) ==
    /\ Dispatching
    /\ IF accepted
       THEN /\ avif_settings' = chosen
            /\ info_label' = LabelF("SETTINGS_UPDATED", "AVIF", 0, 0)
            /\ save_settings([Doc EXCEPT !.avif_settings = chosen])
       ELSE /\ UNCHANGED avif_settings
            /\ info_label' = NoLabel
            /\ NoSave
    /\ last_op' = "other"
    /\ step_io' = {}
    /\ listed' = {}
    /\ UNCHANGED <<pc, envVars, webp_settings, source_filepath, output_folder_path,
                   batch_folder_path, stack>>
    /\ save_options' = EmptyDict

\* closeEvent: save the settings and accept; the window closes, handlers that
\* are still inside processEvents() run on to their end
closeEvent ==
    /\ Dispatching
    /\ save_settings(Doc)
    /\ pc' = "closed"
    /\ last_op' = "other"
    /\ step_io' = {}
    /\ listed' = {}
    /\ info_label' = NoLabel
    /\ save_options' = EmptyDict
    /\ UNCHANGED <<envVars, docVars, source_filepath, stack>>

----------------------------------------------------------------------------
(* Save options *)

WebpMethod == 6
AvifSpeed == 5
AvifLosslessQuality == 100

\* options[key] = value
Put(options, key, value) ==
    [k \in DOMAIN options \cup {key} |-> IF k = key THEN value ELSE options[k]]

\* mutant: the WebP builder always passes the quality
WebpOptionsAlwaysQuality(settings) ==
    Put([k \in {"format", "lossless", "method"} |->
            CASE k = "format" -> "WEBP"
              [] k = "lossless" -> settings["lossless"]
              [] k = "method" -> WebpMethod],
        "quality", settings["quality"])

\* _build_webp_save_options
_build_webp_save_options(settings) ==
    LET options == [k \in {"format", "lossless", "method"} |->
                       CASE k = "format" -> "WEBP"
                         [] k = "lossless" -> settings["lossless"]
                         [] k = "method" -> WebpMethod]
    IN  IF ~settings["lossless"]
        THEN Put(options, "quality", settings["quality"])
        ELSE options

\* _build_avif_save_options
_build_avif_save_options(settings) ==
    LET options == [k \in {"format", "speed"} |->
                       CASE k = "format" -> "AVIF"
                         [] k = "speed" -> AvifSpeed]
    IN  IF settings["lossless"]
        THEN Put(options, "quality", AvifLosslessQuality)
        ELSE Put(options, "quality", settings["quality"])

----------------------------------------------------------------------------
(* The two conversion handlers, run_conversion_webp and run_conversion_avif, *)
(* differ in the arguments below only.                                      *)

Formats == {"webp", "avif"}

new_extension(fmt) ==
    IF fmt = "webp" THEN <<".", "w", "e", "b", "p">> ELSE <<".", "a", "v", "i", "f">>
format_label(fmt) == IF fmt = "webp" THEN "WebP" ELSE "AVIF"
settings_of(fmt) == IF fmt = "webp" THEN webp_settings ELSE avif_settings
save_options_builder(fmt, settings) ==
    IF fmt = "webp" THEN _build_webp_save_options(settings)
    ELSE _build_avif_save_options(settings)
handler_name(fmt) == IF fmt = "webp" THEN "run_conversion_webp" ELSE "run_conversion_avif"

\* _check_prerequisites: "OK" for True, else the error it puts on the label
_check_prerequisites(for_batch) ==
    IF for_batch /\ ~Truthy(batch_folder_path) THEN "ERR_NO_BATCH_FOLDER"
    ELSE IF ~for_batch /\ ~Truthy(source_filepath) THEN "ERR_NO_SOURCE"
    ELSE IF ~Truthy(output_folder_path) THEN "ERR_NO_OUTPUT"
    ELSE IF Image = "None" THEN "ERR_NO_PILLOW"
    ELSE "OK"

\* _get_output_path
_get_output_path(source_path, ext) ==
    join(output_folder_path.s, splitext(basename(source_path))[1] \o ext)

\* mutant: the filter does not ask os.path.isfile
CollectIgnoresIsFile(listing) ==
    LET eligible(n) == EndsWith(Lower(n), SUPPORTED_IMAGE_EXTENSIONS)
        kept == SelectSeq(Sorted({e.name : e \in listing}), eligible)
    IN  IF ~Truthy(batch_folder_path) THEN <<>>
        ELSE [i \in 1..Len(kept) |-> join(batch_folder_path.s, kept[i])]

\* _collect_batch_files, given what os.listdir(batch_folder_path) returns
_collect_batch_files(listing) ==
    LET isfile(n) == (CHOOSE e \in listing : e.name = n).isfile
        eligible(n) == isfile(n) /\ EndsWith(Lower(n), SUPPORTED_IMAGE_EXTENSIONS)
        kept == SelectSeq(Sorted({e.name : e \in listing}), eligible)
    IN  IF ~Truthy(batch_folder_path) THEN <<>>
        ELSE [i \in 1..Len(kept) |-> join(batch_folder_path.s, kept[i])]

----------------------------------------------------------------------------
(* Conversion handlers *)

\* the image handles one conversion creates: Image.open's image, the copy
\* _process_image makes of it, and the image resize() returns
Handles == {"img", "copy", "resized"}

\* step_io entries: a handle was created, was closed, was passed to save()
Created(h) == CASE h = "img" -> "create_img" [] h = "copy" -> "create_copy"
                [] h = "resized" -> "create_resized"
Closed(h) == CASE h = "img" -> "close_img" [] h = "copy" -> "close_copy"
               [] h = "resized" -> "close_resized"
Encoded(h) == CASE h = "img" -> "encode_img" [] h = "copy" -> "encode_copy"
                [] h = "resized" -> "encode_resized"

\* mutant: the image of the failed resize is what _process_image returns
ProcessImageReturnsResized(settings, copy_raises, resize_raises) ==
    LET resizing == ~copy_raises /\ settings["resize_mode"] = "specify"
    IN  [created |-> IF copy_raises THEN {}
                     ELSE {"copy"} \cup (IF resizing THEN {"resized"} ELSE {}),
         processed_img |-> IF copy_raises THEN "none"
                           ELSE IF resizing THEN "resized" ELSE "copy",
         io |-> (IF resizing THEN {"resize"} ELSE {})
                \cup (IF resizing /\ resize_raises THEN {"resize_error"} ELSE {})]

\* _process_image: img.copy(), and with resize_mode "specify" a resize of the
\* copy, whose result replaces the copy unless resize() raised (the except
\* clause prints and goes on).  img.copy() stands outside that try: when it
\* raises (the image data does not load), _process_image raises and nothing
\* is assigned to processed_img.  created: the handles made; processed_img:
\* the one returned ("none" when _process_image raised)
_process_image(settings, copy_raises, resize_raises) ==
    LET resizing == ~copy_raises /\ settings["resize_mode"] = "specify"
        resized == resizing /\ ~resize_raises
    IN  [created |-> IF copy_raises THEN {}
                     ELSE {"copy"} \cup (IF resized THEN {"resized"} ELSE {}),
         processed_img |-> IF copy_raises THEN "none"
                           ELSE IF resized THEN "resized" ELSE "copy",
         io |-> (IF resizing THEN {"resize"} ELSE {})
                \cup (IF resizing /\ resize_raises THEN {"resize_error"} ELSE {})]

\* what one conversion does to images: Image.open in a with block (the image
\* is closed on leaving it, also when _process_image raised), _process_image,
\* save() of its result, and the finally clause closing processed_img when
\* it is not None
image_io(settings, outcome, built, resize_raises) ==
    LET r == _process_image(settings, outcome = "copy_error", resize_raises)
    IN  {"open"}
        \cup (IF outcome # "decode_error"
              THEN {Created("img"), Closed("img")}
                   \cup {Created(h) : h \in r.created} \cup r.io
                   \cup (IF r.processed_img # "none"
                         THEN {Closed(r.processed_img)} ELSE {})
              ELSE {})
        \cup (IF built THEN {"save", Encoded(r.processed_img)} ELSE {})

\* one line of what a batch run did: the label set for file i ("progress"),
\* Image.open(p) ("open"), processed_img.save(p) returning ("saved"),
\* the per-file error print of the except clause ("error")
Ev(e, i, p) == [e |-> e, i |-> i, p |-> p]

\* a _run_batch_conversion call suspended in one of its processEvents() calls:
\* its arguments, its locals, and what it did so far; output_dir is
\* self.output_folder_path as it was when the call was made (the code keeps
\* no such copy, the field is here for the properties to refer to)
Frame(fmt, settings, files) ==
    [fmt |-> fmt, settings |-> settings, files |-> files, total |-> Len(files),
     index |-> 1, successes |-> 0, failures |-> 0, phase |-> "loop",
     trace |-> <<Ev("progress", 1, <<>>)>>,
     output_dir |-> output_folder_path.s]

Top == stack[Len(stack)]

\* a handler is inside processEvents(); it goes on when the call returns,
\* also after the window was closed
Running == stack # <<>> /\ pc \in {"running", "closed"}

\* run_conversion_webp / run_conversion_avif: _check_prerequisites returns False
run_conversion_refused(fmt) ==
    LET check == _check_prerequisites(Truthy(batch_folder_path))
    IN  /\ Dispatching
        /\ check # "OK"
        /\ info_label' = Label(check)
        /\ last_op' = handler_name(fmt)
        /\ step_io' = {}
        /\ listed' = {}
        /\ NoSave
        /\ save_options' = EmptyDict
        /\ UNCHANGED <<pc, envVars, docVars, source_filepath, stack>>

\* batch: os.listdir raises OSError
_run_batch_conversion_oserror(fmt) ==
    /\ Dispatching
    /\ Truthy(batch_folder_path)
    /\ _check_prerequisites(TRUE) = "OK"
    /\ info_label' = Label("ERR_FOLDER_ACCESS")
    /\ last_op' = handler_name(fmt)
    /\ step_io' = {"listdir", "oserror"}
    /\ listed' = {}
    /\ NoSave
    /\ save_options' = EmptyDict
    /\ UNCHANGED <<pc, envVars, docVars, source_filepath, stack>>

\* batch: the folder lists, and holds no eligible file
_run_batch_conversion_empty(fmt, listing) ==
    /\ Dispatching
    /\ Truthy(batch_folder_path)
    /\ _check_prerequisites(TRUE) = "OK"
    /\ _collect_batch_files(listing) = <<>>
    /\ info_label' = Label("ERR_NO_IMAGES")
    /\ last_op' = handler_name(fmt)
    /\ step_io' = {"listdir"}
    /\ listed' = listing
    /\ NoSave
    /\ save_options' = EmptyDict
    /\ UNCHANGED <<pc, envVars, docVars, source_filepath, stack>>

\* batch: files found; the loop sets the label for file 1 and calls processEvents()
_run_batch_conversion_begin(fmt, listing) ==
    LET files == _collect_batch_files(listing)
    IN  /\ Dispatching
        /\ Len(stack) < MaxDepth
        /\ Truthy(batch_folder_path)
        /\ _check_prerequisites(TRUE) = "OK"
        /\ files # <<>>
        /\ stack' = Append(stack, Frame(fmt, settings_of(fmt), files))
        /\ info_label' = LabelF("BATCH_PROGRESS", format_label(fmt), 1, Len(files))
        /\ last_op' = handler_name(fmt)
        /\ step_io' = {"listdir"}
        /\ listed' = listing
        /\ NoSave
        /\ save_options' = EmptyDict
        /\ UNCHANGED <<pc, envVars, docVars, source_filepath>>

\* the outcomes of one file: Image.open raises, img.copy() raises, save()
\* raises, or none of them does
Outcomes == {"ok", "decode_error", "copy_error", "encode_error"}

\* mutant: an error in one file ends the loop
LoopStopsOnError(f, saved) == saved /\ f.index < f.total

\* the for loop goes on to a next file whatever happened to this one: the
\* except clause catches every Exception of the loop body
loop_continues(f, saved) == f.index < f.total

\* what the loop body does with one file: Image.open, then either save()
\* returns or the except clause prints the error with the file's path
file_events(index, source_path, outcome, saved, output_path) ==
    <<Ev("open", index, source_path)>>
    \o (IF saved THEN <<Ev("saved", index, output_path)>>
        ELSE <<Ev("error", index, source_path)>>)

\* mutant: the label is set after the file, with the file's own index
StepTraceProgressAfter(trace, index, did, more) ==
    trace \o did \o <<Ev("progress", index, <<>>)>>

\* the run's trace after one loop body and, when the loop goes on, the
\* setText of the next iteration
step_trace(trace, index, did, more) ==
    trace \o did \o (IF more THEN <<Ev("progress", index + 1, <<>>)>> ELSE <<>>)

\* batch: processEvents() returns; the file at `index` is processed (632-649),
\* then the loop sets the label for the next file and yields again (628-630),
\* or the loop ends, the tally is put on the label and the handler yields a
\* last time (651-658)
_run_batch_conversion_file(outcome, resize_raises) ==
    /\ Running
    /\ Top.phase = "loop"
    /\ LET f == Top
           source_path == f.files[f.index]
           processed == outcome \notin {"decode_error", "copy_error"}
           resizing == processed /\ f.settings["resize_mode"] = "specify"
           path_ok == ~output_folder_path.isNone
           built == processed /\ path_ok
           saved == built /\ outcome = "ok"
           did == file_events(f.index, source_path, outcome, saved,
                              _get_output_path(source_path, new_extension(f.fmt)))
           successes == IF saved THEN f.successes + 1 ELSE f.successes
           failures == IF saved THEN f.failures ELSE f.failures + 1
           more == loop_continues(f, saved)
           g == [f EXCEPT !.successes = successes,
                          !.failures = failures,
                          !.index = IF more THEN f.index + 1 ELSE f.index,
                          !.phase = IF more THEN "loop" ELSE "final",
                          !.trace = step_trace(f.trace, f.index, did, more)]
       IN  /\ resize_raises => resizing
           /\ stack' = [stack EXCEPT ![Len(stack)] = g]
           /\ save_options' = IF built THEN save_options_builder(f.fmt, f.settings)
                              ELSE EmptyDict
           /\ info_label' =
                IF more
                THEN LabelF("BATCH_PROGRESS", format_label(f.fmt), f.index + 1, f.total)
                ELSE IF failures # 0
                THEN LabelF("BATCH_DONE_WITH_FAILURES", format_label(f.fmt), successes, failures)
                ELSE LabelF("BATCH_DONE", format_label(f.fmt), successes, 0)
           /\ step_io' = image_io(f.settings, outcome, built, resize_raises)
    /\ listed' = {}
    /\ last_op' = "_run_batch_conversion"
    /\ NoSave
    /\ UNCHANGED <<pc, envVars, docVars, source_filepath>>

\* batch: the last processEvents() returns, and so does the handler
_run_batch_conversion_return ==
    /\ Running
    /\ Top.phase = "final"
    /\ stack' = SubSeq(stack, 1, Len(stack) - 1)
    /\ last_op' = "return"
    /\ step_io' = {}
    /\ listed' = {}
    /\ NoSave
    /\ info_label' = NoLabel
    /\ save_options' = EmptyDict
    /\ UNCHANGED <<pc, envVars, docVars, source_filepath>>

\* single file: decode, resize, encode and write source_filepath (675-700);
\* the handler's work is done when it reaches its processEvents() call
run_conversion_single(fmt, outcome, resize_raises) ==
    LET settings == settings_of(fmt)
        processed == outcome \notin {"decode_error", "copy_error"}
        resizing == processed /\ settings["resize_mode"] = "specify"
    IN  /\ Dispatching
        /\ ~Truthy(batch_folder_path)
        /\ _check_prerequisites(FALSE) = "OK"
        /\ resize_raises => resizing
        /\ save_options' = IF processed THEN save_options_builder(fmt, settings)
                           ELSE EmptyDict
        /\ info_label' = IF outcome = "ok"
                         THEN LabelF("SINGLE_DONE", format_label(fmt), 0, 0)
                         ELSE LabelF("SINGLE_ERROR", format_label(fmt), 0, 0)
        /\ step_io' = image_io(settings, outcome, processed, resize_raises)
        /\ listed' = {}
        /\ last_op' = handler_name(fmt)
        /\ NoSave
        /\ UNCHANGED <<pc, envVars, docVars, source_filepath, stack>>

----------------------------------------------------------------------------
(* The application *)

\* settings files the application can find at start
InitFiles ==
    { AbsentFile,
      JsonFile({"webp_settings", "output_folder_path", "batch_folder_path"},
               JObject([k \in {"quality"} |-> 42]), JNumber,
               JString(<<"/", "o">>), JString(<<"/", "p">>)) }

Init ==
    /\ pc = "boot"
    /\ Image \in {"PIL", "None"}
    /\ deferred_annotations \in BOOLEAN
    /\ Image = "PIL" => ~deferred_annotations    \* immaterial once the import succeeded
    /\ webp_settings = DefaultDoc.webp_settings
    /\ avif_settings = DefaultDoc.avif_settings
    /\ output_folder_path = PyNone
    /\ batch_folder_path = PyNone
    /\ source_filepath = PyNone
    /\ settingsFile \in InitFiles
    /\ dirs = BatchFolders
    /\ writable \in BOOLEAN
    /\ stack = <<>>
    /\ info_label = NoLabel
    /\ save_options = EmptyDict
    /\ last_op = "none"
    /\ step_io = {}
    /\ listed = {}

\* a click on one of the two convert buttons, for every way the handler can go
ConvertClicked ==
    \/ \E fmt \in Formats : run_conversion_refused(fmt)
    \/ \E fmt \in Formats : _run_batch_conversion_oserror(fmt)
    \/ \E fmt \in Formats, listing \in Listings : _run_batch_conversion_empty(fmt, listing)
    \/ \E fmt \in Formats, listing \in Listings : _run_batch_conversion_begin(fmt, listing)
    \/ \E fmt \in Formats, outcome \in Outcomes, resize_raises \in BOOLEAN :
           run_conversion_single(fmt, outcome, resize_raises)

\* the callbacks that edit the settings document or the selection
EditCallback ==
    \/ \E filepath \in SourceFiles : set_source_file(filepath)
    \/ \E folderpath \in BatchFolders \cup {<<>>} : select_batch_folder(folderpath)
    \/ clear_batch_selection
    \/ \E folderpath \in OutputFolders \cup {<<>>} : select_output_folder(folderpath)
    \/ \E accepted \in BOOLEAN, chosen \in DialogSettings : open_webp_settings(accepted, chosen)
    \/ \E accepted \in BOOLEAN, chosen \in DialogSettings : open_avif_settings(accepted, chosen)

\* a running batch going on from its processEvents() call
BatchContinues ==
    \/ \E outcome \in Outcomes, resize_raises \in BOOLEAN :
           _run_batch_conversion_file(outcome, resize_raises)
    \/ _run_batch_conversion_return

\* Spec: the application from its start, with every callback dispatched from
\* the main loop and from the processEvents() calls of a running batch.  The
\* convert buttons stay enabled while a batch runs, so their handlers are
\* entered again from inside it; MaxDepth caps how deep.
Next ==
    \/ Startup
    \/ EditCallback
    \/ ConvertClicked
    \/ BatchContinues
    \/ closeEvent

Spec == Init /\ [][Next]_vars

----------------------------------------------------------------------------
(* SpecNoCodec: the behaviours of Spec that start with the import of the    *)
(* image library failed.  _check_prerequisites then returns False for every *)
(* request, so no handler gets as far as os.listdir or Image.open and no    *)
(* run is ever suspended in processEvents(): the disjuncts of Next that are *)
(* left out below are never enabled.                                        *)

InitNoCodec == Init /\ Image = "None"

NextNoCodec ==
    \/ Startup
    \/ EditCallback
    \/ \E fmt \in Formats : run_conversion_refused(fmt)
    \/ closeEvent

SpecNoCodec == InitNoCodec /\ [][NextNoCodec]_vars

----------------------------------------------------------------------------
(* SpecStore: the settings store across process runs.  A process starts on *)
(* any settings file of StoreFiles, loads it, is closed (which saves), and  *)
(* a next process starts on what was written.                               *)

\* the fields a settings file can give one of the two settings objects
FileDicts ==
    { [k \in keys |->
          CASE k = "lossless" -> TRUE
            [] k = "quality" -> 42
            [] k = "resize_mode" -> "specify"
            [] k = "width" -> 100
            [] k = "height" -> 50] :
      keys \in (SUBSET {"lossless", "quality", "resize_mode"}) \cup {SettingKeys} }

\* the JSON values a settings file can hold under webp_settings / avif_settings
FileMembers == {JNumber, JEmptyArray} \cup {JObject(d) : d \in FileDicts}

FileOutputPaths == {JNull, JString(<<>>), JString(<<"/", "o">>)}
FileBatchPaths == {JNull, JString(<<"/", "p">>), JString(<<"/", "g">>)}

StoreFiles ==
    {AbsentFile, MalformedFile, ArrayFile}
    \cup { JsonFile(keys,
                    IF "webp_settings" \in keys THEN w ELSE JNumber,
                    IF "avif_settings" \in keys THEN a ELSE JNumber,
                    IF "output_folder_path" \in keys THEN o ELSE JNull,
                    IF "batch_folder_path" \in keys THEN b ELSE JNull) :
           keys \in SUBSET TopKeys, w \in FileMembers, a \in FileMembers,
           o \in FileOutputPaths, b \in FileBatchPaths }

InitStore ==
    /\ pc = "boot"
    /\ Image = "PIL"
    /\ deferred_annotations = FALSE
    /\ webp_settings = DefaultDoc.webp_settings
    /\ avif_settings = DefaultDoc.avif_settings
    /\ output_folder_path = PyNone
    /\ batch_folder_path = PyNone
    /\ source_filepath = PyNone
    /\ settingsFile \in StoreFiles
    /\ dirs \in SUBSET BatchFolders
    /\ writable \in BOOLEAN
    /\ stack = <<>>
    /\ info_label = NoLabel
    /\ save_options = EmptyDict
    /\ last_op = "none"
    /\ step_io = {}
    /\ listed = {}

\* the process has ended and the program is started again
Relaunch ==
    /\ pc = "closed"
    /\ stack = <<>>
    /\ pc' = "boot"
    /\ webp_settings' = DefaultDoc.webp_settings
    /\ avif_settings' = DefaultDoc.avif_settings
    /\ output_folder_path' = PyNone
    /\ batch_folder_path' = PyNone
    /\ source_filepath' = PyNone
    /\ info_label' = NoLabel
    /\ save_options' = EmptyDict
    /\ last_op' = "none"
    /\ step_io' = {}
    /\ listed' = {}
    /\ UNCHANGED <<envVars, settingsFile, stack>>

\* between two runs the batch folder is removed or created
DirsChange ==
    /\ pc = "closed"
    /\ dirs' \in (SUBSET BatchFolders) \ {dirs}
    /\ UNCHANGED <<pc, Image, deferred_annotations, writable, docVars, source_filepath,
                   settingsFile, stack, info_label, save_options, last_op, step_io, listed>>

NextStore ==
    \/ Startup
    \/ closeEvent
    \/ DirsChange
    \/ Relaunch

SpecStore == InitStore /\ [][NextStore]_vars

----------------------------------------------------------------------------
(* SpecOptions: single-file conversions over every quality the settings     *)
(* dialog can produce.                                                      *)

\* QSpinBox range of the quality field
MaxQuality == 100

OptionSettings ==
    { [default_settings EXCEPT !["lossless"] = l, !["quality"] = q] :
      l \in BOOLEAN, q \in 0..MaxQuality }

InitOptions ==
    /\ pc = "running"
    /\ Image = "PIL"
    /\ deferred_annotations = FALSE
    /\ webp_settings \in OptionSettings
    /\ avif_settings = webp_settings
    /\ output_folder_path = PyStr(<<"/", "o">>)
    /\ batch_folder_path = PyNone
    /\ source_filepath \in {PyStr(f) : f \in SourceFiles}
    /\ settingsFile = AbsentFile
    /\ dirs = BatchFolders
    /\ writable = TRUE
    /\ stack = <<>>
    /\ info_label = NoLabel
    /\ save_options = EmptyDict
    /\ last_op = "none"
    /\ step_io = {}
    /\ listed = {}

NextOptions ==
    \E fmt \in Formats, outcome \in Outcomes, resize_raises \in BOOLEAN :
        run_conversion_single(fmt, outcome, resize_raises)

SpecOptions == InitOptions /\ [][NextOptions]_vars

----------------------------------------------------------------------------
(* SpecReentrant: the behaviours of Spec, from a state in which a source,   *)
(* an output folder, a batch folder and WebP settings have been chosen, in  *)
(* which the convert buttons are clicked at any time, also while a batch is *)
(* inside processEvents(): the buttons stay enabled and connected (372,     *)
(* 397), so the click is dispatched to run_conversion_webp /                *)
(* run_conversion_avif from inside the running one.  The output folder and  *)
(* the AVIF settings stay as they are.                                      *)

\* the state set_source_file, select_output_folder, open_webp_settings and
\* select_batch_folder leave behind
InitReentrant ==
    /\ pc = "running"
    /\ Image = "PIL"
    /\ deferred_annotations = FALSE
    /\ webp_settings \in DialogSettings
    /\ avif_settings = DefaultDoc.avif_settings
    /\ output_folder_path = PyStr(<<"/", "o">>)
    /\ batch_folder_path = PyStr(<<"/", "p">>)
    /\ source_filepath \in {PyStr(f) : f \in SourceFiles}
    /\ settingsFile = Dump(Doc)
    /\ dirs = BatchFolders
    /\ writable = TRUE
    /\ stack = <<>>
    /\ info_label = Label("INFO")
    /\ save_options = EmptyDict
    /\ last_op = "other"
    /\ step_io = {}
    /\ listed = {}

\* every click on a convert button, at any time (none is refused: a source
\* and an output folder stay chosen and the library is there); the batch
\* going on; the window being closed; and the callbacks that set the source,
\* switch between batch and single-file mode and accept the WebP dialog
NextReentrant ==
    \/ \E fmt \in Formats : _run_batch_conversion_oserror(fmt)
    \/ \E fmt \in Formats, listing \in Listings : _run_batch_conversion_empty(fmt, listing)
    \/ \E fmt \in Formats, listing \in Listings : _run_batch_conversion_begin(fmt, listing)
    \/ \E fmt \in Formats, outcome \in Outcomes, resize_raises \in BOOLEAN :
           run_conversion_single(fmt, outcome, resize_raises)
    \/ BatchContinues
    \/ \E filepath \in SourceFiles : set_source_file(filepath)
    \/ \E folderpath \in BatchFolders \cup {<<>>} : select_batch_folder(folderpath)
    \/ clear_batch_selection
    \/ \E accepted \in BOOLEAN, chosen \in DialogSettings : open_webp_settings(accepted, chosen)
    \/ closeEvent

SpecReentrant == InitReentrant /\ [][NextReentrant]_vars

----------------------------------------------------------------------------
(* SpecOutput: the behaviours of Spec, from a state in which an output      *)
(* folder and a batch folder have been chosen, in which batches are started *)
(* at any time and the output folder is changed while they run.             *)

\* the state select_output_folder and select_batch_folder leave behind
InitLive ==
    /\ pc = "running"
    /\ Image = "PIL"
    /\ deferred_annotations = FALSE
    /\ webp_settings = DefaultDoc.webp_settings
    /\ avif_settings = DefaultDoc.avif_settings
    /\ output_folder_path = PyStr(<<"/", "o">>)
    /\ batch_folder_path = PyStr(<<"/", "p">>)
    /\ source_filepath = PyNone
    /\ settingsFile = Dump(Doc)
    /\ dirs = BatchFolders
    /\ writable = TRUE
    /\ stack = <<>>
    /\ info_label = Label("INFO")
    /\ save_options = EmptyDict
    /\ last_op = "other"
    /\ step_io = {}
    /\ listed = {}

NextOutput ==
    \/ \E fmt \in Formats, listing \in Listings : _run_batch_conversion_begin(fmt, listing)
    \/ BatchContinues
    \/ \E folderpath \in OutputFolders \cup {<<>>} : select_output_folder(folderpath)

SpecOutput == InitLive /\ [][NextOutput]_vars

----------------------------------------------------------------------------
(* SpecLive: the behaviours of Spec from the same state in which the        *)
(* convert buttons are clicked at any time, the batch selection is cleared  *)
(* and made again and the window is closed, with every run going on when    *)
(* its processEvents() call can return.  No source is set, so a click       *)
(* without a batch selection is refused.                                    *)

NextLive ==
    \/ \E fmt \in Formats : run_conversion_refused(fmt)
    \/ \E fmt \in Formats : _run_batch_conversion_oserror(fmt)
    \/ \E fmt \in Formats, listing \in Listings : _run_batch_conversion_empty(fmt, listing)
    \/ \E fmt \in Formats, listing \in Listings : _run_batch_conversion_begin(fmt, listing)
    \/ BatchContinues
    \/ clear_batch_selection
    \/ \E folderpath \in BatchFolders : select_batch_folder(folderpath)
    \/ closeEvent

\* the processEvents() call of the run at depth d returns and the run goes on
Resumes(d) == Len(stack) = d /\ BatchContinues

\* processEvents() dispatches the events that are pending and returns, and
\* the loop body has no other wait: a run whose call can return, and stays
\* able to, goes on.  While a nested run is on the stack the call of the run
\* below it cannot return.
SpecLive ==
    InitLive /\ [][NextLive]_vars /\ \A d \in 1..MaxDepth : WF_vars(Resumes(d))

----------------------------------------------------------------------------
(* Properties *)

ConversionHandlers == {"run_conversion_webp", "run_conversion_avif"}

\* the events of kind e in a run's trace, in order
EventsOf(f, e) == LET is(ev) == ev.e = e IN SelectSeq(f.trace, is)

Frames == {stack[d] : d \in 1..Len(stack)}

\* C1: per-file isolation.  In every batch run the files are opened once each
\* in enumeration order, whatever failed before; successes counts the files
\* whose save returned and failures the files whose decode or encode failed;
\* and when the run has finished every one of its N files was attempted and
\* successes + failures = N.
C1_PerFileIsolation ==
    \A f \in Frames :
        LET opens == EventsOf(f, "open")
            saves == EventsOf(f, "saved")
        IN  /\ \A j \in 1..Len(opens) : opens[j].i = j /\ opens[j].p = f.files[j]
            /\ f.phase = "loop" => Len(opens) = f.index - 1
            /\ f.successes = Len(saves)
            /\ f.failures = Len(opens) - Len(saves)
            /\ f.phase = "final" =>
                   /\ Len(opens) = f.total
                   /\ f.total = Len(f.files)
                   /\ f.successes + f.failures = f.total

\* a run of three files, started while another run was between two files,
\* has finished: its first file failed and its second and third file were
\* converted all the same
C1_Witness ==
    \E f \in Frames :
        /\ Len(stack) = 2
        /\ f = stack[2]
        /\ f.phase = "final"
        /\ f.total = 3
        /\ f.failures = 1
        /\ f.successes = 2
        /\ \E j \in 1..Len(f.trace) : f.trace[j].e = "error" /\ f.trace[j].i = 1

\* C2: with the codec library unavailable, a conversion request is answered
\* with the codec-unavailable error and touches no image file or folder.
C2_CodecUnavailableReported ==
    Image = "None" =>
        /\ pc # "crashed"
        /\ last_op \in ConversionHandlers =>
               /\ info_label = Label("ERR_NO_PILLOW")
               /\ step_io = {}

\* what a load of the saved file into a default-constructed document gives
Reloaded == load_settings(DefaultDoc, settingsFile, dirs)

\* C3: settings round trip.  After a save that was written, loading the file
\* into a default-constructed document gives the document that was saved,
\* field by field, except that a batch folder that is no directory at load
\* time comes back as None.
C3_RoundTrip ==
    (pc = "closed" /\ writable) =>
        /\ Reloaded.webp_settings = webp_settings
        /\ Reloaded.avif_settings = avif_settings
        /\ Reloaded.output_folder_path = output_folder_path
        /\ Reloaded.batch_folder_path =
               IF Truthy(batch_folder_path) /\ batch_folder_path.s \in dirs
               THEN batch_folder_path ELSE PyNone

\* a document with non-default settings, an output folder and a batch folder
\* was saved, and the batch folder is gone when the file is loaded
C3_Witness ==
    /\ pc = "closed"
    /\ writable
    /\ settingsFile = Dump(Doc)
    /\ webp_settings["quality"] = 42
    /\ avif_settings["lossless"]
    /\ Truthy(output_folder_path)
    /\ Truthy(batch_folder_path)
    /\ batch_folder_path.s \notin dirs
    /\ Reloaded.batch_folder_path = PyNone

\* the file's object under `key`, if it has one
HasObject(file, key) == file.kind = "object" /\ key \in file.keys /\ file[key].t = "object"

\* the value load_settings is to leave in field k of the dict of `key`
Merged(file, key, k) ==
    IF HasObject(file, key) /\ k \in DOMAIN file[key].v
    THEN file[key].v[k] ELSE DefaultDoc[key][k]

\* the file parses to an object whose two settings members, where present,
\* are objects
WellShaped(file) ==
    /\ file.kind = "object"
    /\ \A key \in {"webp_settings", "avif_settings"} :
           key \in file.keys => file[key].t = "object"

JustLoaded == pc = "running" /\ last_op = "load_settings"

Rejected(file, key) ==
    file.kind = "object" /\ key \in file.keys /\ file[key].t \in {"number", "null"}

BadFile(file) == file.kind \in {"malformed", "array"} \/ (file.kind = "object" /\ ~WellShaped(file))

\* C5: a load of a malformed or wrongly shaped file leaves the whole document
\* at its defaults.
C5_BadFileLeavesDefaults ==
    (JustLoaded /\ BadFile(settingsFile)) => Doc = DefaultDoc

\* C6: every callback that changes the settings document, and closeEvent,
\* leaves the file equal to the dump of the document, unless the write failed.
C6_MutationsFlushed ==
    [][ (pc = "running" /\ (Doc' # Doc \/ pc' = "closed") /\ writable)
            => settingsFile' = Dump(Doc') ]_vars

\* a batch folder was selected, and the file holds it
C6_Witness ==
    /\ pc = "running"
    /\ last_op = "other"
    /\ writable
    /\ info_label = Label("INFO")
    /\ Truthy(batch_folder_path)
    /\ webp_settings # DefaultDoc.webp_settings
    /\ settingsFile = Dump(Doc)
    /\ settingsFile.batch_folder_path = JString(batch_folder_path.s)

\* no entry is a regular file whose lower-cased name ends in a supported extension
NoEligible(listing) ==
    ~ \E e \in listing : e.isfile /\ EndsWith(Lower(e.name), SUPPORTED_IMAGE_EXTENSIONS)

\* C7: a batch over a folder that lists and holds no eligible file ends with
\* the nothing-to-convert label, having opened and written nothing and
\* started no run (the runs suspended in processEvents(), if any, are as they
\* were); a folder that cannot be listed ends with another label.
C7_NothingToConvert ==
    [][ (last_op' \in ConversionHandlers /\ "listdir" \in step_io') =>
            /\ "oserror" \in step_io' =>
                   /\ info_label' = Label("ERR_FOLDER_ACCESS")
                   /\ stack' = stack
            /\ ("oserror" \notin step_io' /\ NoEligible(listed')) =>
                   /\ info_label' = Label("ERR_NO_IMAGES")
                   /\ info_label' # Label("ERR_FOLDER_ACCESS")
                   /\ step_io' = {"listdir"}
                   /\ save_options' = EmptyDict
                   /\ stack' = stack ]_vars

\* the folder holds a text file and a directory named like an image, and the
\* click came while a batch was between two files
C7_Witness ==
    /\ stack # <<>>
    /\ Top.phase = "loop"
    /\ last_op \in ConversionHandlers
    /\ step_io = {"listdir"}
    /\ Cardinality(listed) = 2
    /\ \E e \in listed : ~e.isfile /\ EndsWith(e.name, SUPPORTED_IMAGE_EXTENSIONS)
    /\ NoEligible(listed)
    /\ info_label = Label("ERR_NO_IMAGES")

\* C8: the options a conversion passes to save() follow the reference rule.
C8_BuildOptionsRule ==
    /\ (last_op = "run_conversion_webp" /\ "save" \in step_io) =>
           /\ save_options["format"] = "WEBP"
           /\ save_options["lossless"] = webp_settings["lossless"]
           /\ save_options["method"] = 6
           /\ ("quality" \in DOMAIN save_options) <=> ~webp_settings["lossless"]
           /\ ~webp_settings["lossless"] => save_options["quality"] = webp_settings["quality"]
    /\ (last_op = "run_conversion_avif" /\ "save" \in step_io) =>
           /\ save_options["format"] = "AVIF"
           /\ save_options["speed"] = 5
           /\ "quality" \in DOMAIN save_options
           /\ save_options["quality"] =
                  IF avif_settings["lossless"] THEN 100 ELSE avif_settings["quality"]

\* a lossless WebP conversion with quality 50 set: no quality is passed
C8_Witness ==
    /\ last_op = "run_conversion_webp"
    /\ "save" \in step_io
    /\ webp_settings["lossless"]
    /\ webp_settings["quality"] = 50
    /\ "quality" \notin DOMAIN save_options

\* the per-file errors a run has on record.  _run_batch_conversion has the
\* counters successes and failures and no list: the except clause prints the
\* file's path with the message and keeps neither, and the label set at the
\* end carries the two counts
per_file_errors(f) == <<>>

\* C9: when a batch run ends, its record of per-file errors holds the path of
\* every file that failed, once, in enumeration order, holds no path of a
\* converted file, and is as long as failures.
C9_ErrorsRecorded ==
    \A f \in Frames :
        f.phase = "final" =>
            LET record == per_file_errors(f)
                errs == EventsOf(f, "error")
            IN  /\ Len(record) = f.failures
                /\ \A a \in 1..Len(errs) : a <= Len(record) /\ record[a] = errs[a].p
                /\ \A a \in 1..Len(record) : a <= Len(errs)

\* the error lines a run prints name each failed file once, in enumeration
\* order, name no converted file, and are as many as failures; a run whose
\* files failed still ends with every file attempted
PrintedErrorsInOrder ==
    \A f \in Frames :
        LET errs == EventsOf(f, "error")
            opens == EventsOf(f, "open")
            saves == EventsOf(f, "saved")
        IN  /\ Len(errs) = f.failures
            /\ \A a, b \in 1..Len(errs) : a < b => errs[a].i < errs[b].i
            /\ \A a \in 1..Len(errs) : errs[a].p = f.files[errs[a].i]
            /\ \A j \in 1..Len(opens) :
                   (\E a \in 1..Len(errs) : errs[a].i = j)
                       <=> ~(\E b \in 1..Len(saves) : saves[b].i = j)
            /\ f.phase = "final" => Len(opens) = f.total

\* C10 as stated: the progress notification (i, N) comes after file i has
\* been processed.
C10_ProgressAfterFile ==
    \A f \in Frames :
        \A j \in 1..Len(f.trace) :
            f.trace[j].e = "progress" =>
                \E k \in 1..(j - 1) :
                    f.trace[k].i = f.trace[j].i /\ f.trace[k].e \in {"saved", "error"}

\* the label a run sets when its loop has ended: the tally
Tally(f) ==
    IF f.failures # 0
    THEN LabelF("BATCH_DONE_WITH_FAILURES", format_label(f.fmt), f.successes, f.failures)
    ELSE LabelF("BATCH_DONE", format_label(f.fmt), f.successes, 0)

\* C10, amended: the progress notification (i, N) comes before file i is
\* opened and after file i-1 has been processed, once for every i in 1..N;
\* after file N there is no further notification, the tally is shown instead.
C10_ProgressBeforeFile ==
    /\ (last_op \in ConversionHandlers /\ info_label.kind = "BATCH_PROGRESS") =>
           info_label = LabelF("BATCH_PROGRESS", format_label(Top.fmt), 1, Top.total)
    /\ last_op = "_run_batch_conversion" =>
           info_label = IF Top.phase = "final" THEN Tally(Top)
                        ELSE LabelF("BATCH_PROGRESS", format_label(Top.fmt),
                                    Top.index, Top.total)
    /\ \A f \in Frames :
           f.phase = "final" =>
               /\ f.trace[Len(f.trace)].e \in {"saved", "error"}
               /\ f.trace[Len(f.trace)].i = f.total
               /\ Len(EventsOf(f, "progress")) = f.total
    /\ \A f \in Frames :
        /\ \A j \in 1..Len(f.trace) :
               f.trace[j].e = "progress" =>
                   /\ \A k \in 1..(j - 1) : f.trace[k].i < f.trace[j].i
                   /\ \A k \in (j + 1)..Len(f.trace) :
                          /\ f.trace[k].i >= f.trace[j].i
                          /\ f.trace[k].e # "progress" \/ f.trace[k].i > f.trace[j].i
        /\ \A i \in 1..f.index :
               \E j \in 1..Len(f.trace) : f.trace[j] = Ev("progress", i, <<>>)
        /\ \A j \in 1..Len(f.trace) :
               f.trace[j].e = "open" =>
                   j > 1 /\ f.trace[j - 1] = Ev("progress", f.trace[j].i, <<>>)

\* a run of two files or more has just ended and shows its tally; the
\* notification for file 2 stands between the end of file 1 and the opening
\* of file 2
C10_Witness ==
    /\ last_op = "_run_batch_conversion"
    /\ stack # <<>>
    /\ Top.phase = "final"
    /\ info_label = Tally(Top)
    /\ \E f \in {Top} :
        \E j \in 2..(Len(f.trace) - 1) :
            /\ f.trace[j] = Ev("progress", 2, <<>>)
            /\ f.trace[j - 1].i = 1
            /\ f.trace[j - 1].e \in {"saved", "error"}
            /\ f.trace[j + 1].e = "open"
            /\ f.trace[j + 1].i = 2

\* the output files a run has written so far
OutputsWritten(f) ==
    {f.trace[j].p : j \in {k \in 1..Len(f.trace) : f.trace[k].e = "saved"}}

\* C11: one output file per input.  Every converted file of a batch run is
\* written to base name + target extension, and when the run has finished
\* the number of distinct output files written equals successes.
C11_OneOutputPerInput ==
    \A f \in Frames :
        /\ \A j \in 1..Len(f.trace) :
               f.trace[j].e = "saved" =>
                   basename(f.trace[j].p) =
                       splitext(basename(f.files[f.trace[j].i]))[1] \o new_extension(f.fmt)
        /\ f.phase = "final" => Cardinality(OutputsWritten(f)) = f.successes

\* C12: a batch run works on the inputs it was started with.  Every file of
\* a run is encoded with the options built from the settings the run was
\* called with, and is written into the output folder that was configured
\* when the run started, whatever callbacks ran between the files.
C12_BatchUsesStartInputs ==
    /\ (last_op = "_run_batch_conversion" /\ "save" \in step_io) =>
           save_options = save_options_builder(Top.fmt, Top.settings)
    /\ \A f \in Frames :
           \A j \in 1..Len(f.trace) :
               f.trace[j].e = "saved" => dirname(f.trace[j].p) = f.output_dir

\* C13: image handles do not accumulate across a batch.  Every handle created
\* while a file of a batch is processed (the decoded source, its copy, the
\* resized image) is closed before the next file is opened.
C13_HandlesReleased ==
    last_op = "_run_batch_conversion" =>
        \A h \in Handles : Created(h) \in step_io => Closed(h) \in step_io

\* C14: resize failure is non-fatal.  When resize() raises, the unresized
\* copy is what is passed to save(), the file's conversion goes on to save(),
\* and in a batch the file counts as a success when save() returns: it is a
\* failure only when save() raised.
C14_ResizeFailureNonFatal ==
    "resize_error" \in step_io =>
        /\ "save" \in step_io
        /\ Encoded("copy") \in step_io
        /\ Encoded("resized") \notin step_io
        /\ Created("resized") \notin step_io
        /\ last_op = "_run_batch_conversion" =>
               LET f == Top
                   i == IF f.phase = "final" THEN f.index ELSE f.index - 1
                   saves == EventsOf(f, "saved")
                   errs == EventsOf(f, "error")
               IN  /\ f.settings["resize_mode"] = "specify"
                   /\ (\E a \in 1..Len(saves) : saves[a].i = i)
                          <=> ~(\E a \in 1..Len(errs) : errs[a].i = i)
                   /\ f.successes = Len(saves)
                   /\ f.failures = Len(errs)

\* a batch file whose resize failed and whose save() returned: the run that
\* has finished counts it as its one success and has no failure
C14_Witness ==
    /\ last_op = "_run_batch_conversion"
    /\ "resize_error" \in step_io
    /\ Encoded("copy") \in step_io
    /\ Top.phase = "final"
    /\ Top.total = 1
    /\ Top.successes = 1
    /\ Top.failures = 0

\* the label texts "(i/N)" a run has set, in order
ProgressShown(f) ==
    LET ps == EventsOf(f, "progress") IN [j \in 1..Len(ps) |-> ps[j].i]

\* the run at depth d of the stack is in its loop
Processing(d) == Len(stack) >= d /\ stack[d].phase = "loop"

\* the run at depth d has left its loop with every file attempted, having
\* shown (1/N), ..., (N/N) in this order
Done(d) ==
    /\ Len(stack) >= d
    /\ stack[d].phase = "final"
    /\ ProgressShown(stack[d]) = [j \in 1..stack[d].total |-> j]
    /\ Len(EventsOf(stack[d], "open")) = stack[d].total

\* C15: a started batch runs to completion.  A run over N >= 1 files that is
\* in its loop reaches its end with all N files attempted in order, whatever
\* callbacks are handled between the files, the clicks on the convert buttons
\* included.
C15_RunsToCompletion == \A d \in 1..MaxDepth : Processing(d) ~> Done(d)

\* C16: at most one conversion run is in progress at any time.  While a
\* batch run is in its loop no other run_conversion handler starts a batch
\* or converts a file.
C16_OneConversionAtATime ==
    /\ Len(stack) <= 1
    /\ (stack # <<>> /\ last_op \in ConversionHandlers) => "open" \notin step_io

====
